---------------------------- MODULE Spec2Model ----------------------------
(***************************************************************************)
(* Model of script.js, the gamified to-do list: the in-memory document     *)
(* (categories -> tasks), the selection cursor, the localStorage slot      *)
(* "taskrpg", the wall clock behind Date.now() / toDateString(), the       *)
(* rendered category and task lists whose click handlers feed the          *)
(* mutations, and the level-up calls.                                      *)
(*                                                                         *)
(* Encoding of JavaScript values:                                          *)
(*   - a string is a sequence of one-character strings ("12" is            *)
(*     <<"1","2">>), except colours and date strings, which are only ever  *)
(*     compared whole and are TLA+ strings;                                *)
(*   - a value that may be null is null (the empty tuple) or Val(v) (the   *)
(*     one-element tuple holding v);                                       *)
(*   - an object is a record, an array a sequence.                         *)
(***************************************************************************)
EXTENDS Integers, Sequences, FiniteSets

VARIABLES
    data,               \* let data = { categories: [] }
    currentCategoryId,  \* let currentCategoryId = null
    storage,            \* localStorage.getItem("taskrpg"): null or Val(blob)
    now,                \* the wall clock, milliseconds since the epoch
    phase,              \* "loaded": script evaluated, init() not yet run;
                        \* "ready": init() returned; "failed": init() threw
                        \* in loadData, no handler is bound; "bound": init()
                        \* threw after it bound the handlers
    domCategories,      \* ids carried by the <li> of #categoryList
    domTasks,           \* ids carried by the <li> of #taskList
    calls,              \* showLevelUpPopup / unlockSkins calls of the last handler
    thrown              \* exception the last handler ended with, or "none"

vars == <<data, currentCategoryId, storage, now, phase, domCategories,
          domTasks, calls, thrown>>

-----------------------------------------------------------------------------
(* Bounds of the model *)

MaxCategories == 2      \* categories in the document
MaxTasks == 2           \* tasks in the document, all categories together
MaxXp == 2              \* xp in the document under Spec
MaxLevelXp == 10        \* xp in the document under SpecLevels
MaxMs == 1              \* milliseconds the clock advances within one day
MaxDay == 1             \* calendar days the clock advances
MaxPaletteTasks == 9    \* tasks in the document under SpecPalette

-----------------------------------------------------------------------------
(* JavaScript values *)

null == <<>>
Val(v) == <<v>>
Unwrap(o) == o[1]

\* !x for a string-or-null x: null and the empty string are falsy
Falsy(x) == x = null \/ x = Val(<<>>)

baseShades ==
    << "#ff8a65", "#4dabf5", "#81c784", "#ffd54f", "#ba68c8", "#f06292",
       "#90a4ae" >>

\* Mutant: the swap only copies one way
Swap_CopiesOneWay(arr, i, j) == [arr EXCEPT ![i] = arr[j]]

\* [copy[i], copy[j]] = [copy[j], copy[i]]
Swap(arr, i, j) == [arr EXCEPT ![i] = arr[j], ![j] = arr[i]]

\* The loop of shuffleArray from index i down (1-based: i > 1 is the code's
\* i > 0).  rnd[i] is the code's j + 1 = floor(Math.random() * i) + 1 drawn at
\* index i.
RECURSIVE ShuffleFrom(_, _, _)
ShuffleFrom(copy, i, rnd) ==
    IF i > 1 THEN ShuffleFrom(Swap(copy, i, rnd[i]), i - 1, rnd) ELSE copy

shuffleArray(arr, rnd) == ShuffleFrom(arr, Len(arr), rnd)

\* Outcomes of the six Math.random() draws of one shuffle: rnd[i] \in 1..i
\* (<<1, 2, 3, 4, 5, 6, 7>> would leave every element in place)
RandomDraws == { <<1, 1, 2, 2, 4, 1, 3>> }

-----------------------------------------------------------------------------
(* Clock, Date.now().toString(), new Date().toDateString() *)

MsPerDay == 24 * 60 * 60 * 1000

Digit(d) == <<"0", "1", "2", "3", "4", "5", "6", "7", "8", "9">>[d + 1]

\* Number.prototype.toString() of a non-negative integer: its decimal digits
RECURSIVE NumberToString(_)
NumberToString(n) ==
    IF n < 10 THEN <<Digit(n)>> ELSE Append(NumberToString(n \div 10), Digit(n % 10))

\* Mutant: the timestamp is taken in seconds
generateId_Seconds(t) == NumberToString(t \div 1000)

generateId(t) == NumberToString(t)

\* Date.prototype.toDateString() in UTC, for the first days of the epoch
DateStrings ==
    << "Thu Jan 01 1970", "Fri Jan 02 1970", "Sat Jan 03 1970",
       "Sun Jan 04 1970", "Mon Jan 05 1970" >>

toDateString(t) == DateStrings[(t \div MsPerDay) + 1]

\* String.prototype.trim(): strips leading and trailing white space
RECURSIVE TrimStart(_)
TrimStart(s) ==
    IF s # <<>> /\ Head(s) = " " THEN TrimStart(Tail(s)) ELSE s

RECURSIVE TrimEnd(_)
TrimEnd(s) ==
    IF s # <<>> /\ s[Len(s)] = " " THEN TrimEnd(SubSeq(s, 1, Len(s) - 1)) ELSE s

\* Mutant: the input is taken as typed
Trim_Omitted(s) == s

Trim(s) == TrimEnd(TrimStart(s))

-----------------------------------------------------------------------------
(* JSON.stringify / JSON.parse.  A blob is the JSON text, kept as its value  *)
(* tree: <<"object", <<key, value>> pairs>>, <<"array", values>>,            *)
(* <<"string", s>>, <<"number", n>>, <<"boolean", b>>, <<"null">>; a text   *)
(* that is no JSON is <<"malformed">>.                                       *)

JObject(pairs) == <<"object", pairs>>
JArray(elems) == <<"array", elems>>
JString(s) == <<"string", s>>
JNumber(n) == <<"number", n>>
JBoolean(b) == <<"boolean", b>>
JNull == <<"null">>
Malformed == <<"malformed">>

\* Reading property key of a parsed object: the last pair of that key,
\* undefined when there is none
Get(obj, key) ==
    LET pairs == obj[2]
        hits == {i \in 1..Len(pairs) : pairs[i][1] = key}
    IN  IF hits = {} THEN <<"undefined">>
        ELSE pairs[CHOOSE i \in hits : \A j \in hits : j <= i][2]

\* Mutant: the completion date is not written
StringifyTask_NoDate(task) ==
    JObject(<< <<"id", JString(task.id)>>,
               <<"text", JString(task.text)>>,
               <<"done", JBoolean(task.done)>>,
               <<"daily", JBoolean(task.daily)>>,
               <<"lastCompleted", JNull>>,
               <<"color", JString(task.color)>> >>)

StringifyTask(task) ==
    JObject(<< <<"id", JString(task.id)>>,
               <<"text", JString(task.text)>>,
               <<"done", JBoolean(task.done)>>,
               <<"daily", JBoolean(task.daily)>>,
               <<"lastCompleted",
                 IF task.lastCompleted = null THEN JNull
                 ELSE JString(Unwrap(task.lastCompleted))>>,
               <<"color", JString(task.color)>> >>)

StringifyCategory(cat) ==
    JObject(<< <<"id", JString(cat.id)>>,
               <<"name", JString(cat.name)>>,
               <<"tasks",
                 JArray([i \in 1..Len(cat.tasks) |-> StringifyTask(cat.tasks[i])])>>,
               <<"xp", JNumber(cat.xp)>>,
               <<"level", JNumber(cat.level)>>,
               <<"colorOrder",
                 JArray([i \in 1..Len(cat.colorOrder) |-> JString(cat.colorOrder[i])])>>,
               <<"colorIndex", JNumber(cat.colorIndex)>> >>)

\* JSON.stringify(data)
Stringify(doc) ==
    JObject(<< <<"categories",
                 JArray([i \in 1..Len(doc.categories) |->
                            StringifyCategory(doc.categories[i])])>> >>)

ParseTask(v) ==
    [ id |-> Get(v, "id")[2],
      text |-> Get(v, "text")[2],
      done |-> Get(v, "done")[2],
      daily |-> Get(v, "daily")[2],
      lastCompleted |->
          IF Get(v, "lastCompleted")[1] = "null" THEN null
          ELSE Val(Get(v, "lastCompleted")[2]),
      color |-> Get(v, "color")[2] ]

ParseCategory(v) ==
    [ id |-> Get(v, "id")[2],
      name |-> Get(v, "name")[2],
      tasks |-> [i \in 1..Len(Get(v, "tasks")[2]) |->
                    ParseTask(Get(v, "tasks")[2][i])],
      xp |-> Get(v, "xp")[2],
      level |-> Get(v, "level")[2],
      colorOrder |-> [i \in 1..Len(Get(v, "colorOrder")[2]) |->
                         Get(v, "colorOrder")[2][i][2]],
      colorIndex |-> Get(v, "colorIndex")[2] ]

\* JSON.parse(blob) of a blob that is JSON: of the document's shape, or an
\* object without the property categories, which parses to an object without
\* it (the record with no fields)
Parse(blob) ==
    IF Get(blob, "categories") = <<"undefined">> THEN <<>>
    ELSE [ categories |-> [i \in 1..Len(Get(blob, "categories")[2]) |->
                              ParseCategory(Get(blob, "categories")[2][i])] ]

-----------------------------------------------------------------------------
(* The handlers.  A handler maps the machine m (the record of the program's  *)
(* variables) to the machine it leaves; a statement that throws sets         *)
(* m.thrown and the statements after it are skipped.  m.log lists, in the    *)
(* order they were made, the calls of saveData and of the render functions   *)
(* and the call of dailyResetCheck that init makes.                          *)

Machine ==
    [ data |-> data, cur |-> currentCategoryId, storage |-> storage,
      domCategories |-> domCategories, domTasks |-> domTasks,
      calls |-> <<>>, thrown |-> "none", log |-> <<>> ]

Throw(m, e) == [m EXCEPT !.thrown = e]

\* Function fn is entered
Call(m, fn) == [m EXCEPT !.log = Append(@, fn)]

\* Index of the first element of arr whose id is === key (Array.prototype.find),
\* 0 for undefined.  key is a string or null; ids are strings.
Find(arr, key) ==
    LET hits == {i \in 1..Len(arr) : Val(arr[i].id) = key}
    IN  IF hits = {} THEN 0 ELSE CHOOSE i \in hits : \A j \in hits : i <= j

Ids(arr) == [i \in 1..Len(arr) |-> arr[i].id]

\* localStorage.setItem("taskrpg", JSON.stringify(data))
saveData(m) ==
    [Call(m, "saveData") EXCEPT !.storage = Val(Stringify(m.data))]

\* if (saved) data = JSON.parse(saved)
loadData(m) ==
    IF m.storage = null THEN m
    ELSE IF Unwrap(m.storage) = Malformed THEN Throw(m, "SyntaxError")
    ELSE [m EXCEPT !.data = Parse(Unwrap(m.storage))]

\* One <li> per category, each carrying the category id in its click handlers;
\* data.categories.forEach throws when data has no categories
renderCategories(m) ==
    IF DOMAIN m.data = {} THEN Throw(Call(m, "renderCategories"), "TypeError")
    ELSE [Call(m, "renderCategories") EXCEPT
             !.domCategories = Ids(m.data.categories)]

\* One <li> per task of the selected category; cat.name of an undefined cat
\* throws before the list is touched
renderTasks(m) ==
    LET m0 == Call(m, "renderTasks")
        c == Find(m.data.categories, m.cur)
    IN  IF Falsy(m.cur) THEN [m0 EXCEPT !.domTasks = <<>>]
        ELSE IF c = 0 THEN Throw(m0, "TypeError")
        ELSE [m0 EXCEPT !.domTasks = Ids(m.data.categories[c].tasks)]

\* Writes level and xp of the selected category to the page; cat.level of an
\* undefined cat throws
renderProgress(m) ==
    LET m0 == Call(m, "renderProgress")
    IN  IF Falsy(m.cur) THEN m0
        ELSE IF Find(m.data.categories, m.cur) = 0 THEN Throw(m0, "TypeError")
        ELSE m0

\* Guards every lookup, changes nothing the model keeps
renderBadges(m) == Call(m, "renderBadges")

\* The statements after a call: skipped when the call threw
AndThenTasks(m) == IF m.thrown = "none" THEN renderTasks(m) ELSE m
AndThenProgress(m) == IF m.thrown = "none" THEN renderProgress(m) ELSE m
AndThenBadges(m) == IF m.thrown = "none" THEN renderBadges(m) ELSE m

showLevelUpPopup(categoryName, level) ==
    [fn |-> "showLevelUpPopup", name |-> categoryName, level |-> level]

unlockSkins(level) ==
    [fn |-> "unlockSkins", name |-> <<>>, level |-> level]

\* Mutant: saves and renders whether or not a task was flipped
resetCategoryTasks_AlwaysSaves(m, categoryId) ==
    LET c == Find(m.data.categories, Val(categoryId))
    IN  IF c = 0 THEN m
        ELSE LET tasks == m.data.categories[c].tasks
                 cleared == [i \in 1..Len(tasks) |->
                                [tasks[i] EXCEPT !.done = FALSE]]
                 m1 == [m EXCEPT !.data.categories[c].tasks = cleared]
             IN  renderTasks(saveData(m1))

resetCategoryTasks(m, categoryId) ==
    LET c == Find(m.data.categories, Val(categoryId))
    IN  IF c = 0 THEN m
        ELSE LET tasks == m.data.categories[c].tasks
                 changed == \E i \in 1..Len(tasks) : tasks[i].done
                 cleared == [i \in 1..Len(tasks) |->
                                [tasks[i] EXCEPT !.done = FALSE]]
                 m1 == [m EXCEPT !.data.categories[c].tasks = cleared]
             IN  IF changed THEN renderTasks(saveData(m1)) ELSE m1

\* Mutant: the filter keeps what it should drop (=== for !==)
Remaining_Inverted(cats, categoryId) ==
    SelectSeq(cats, LAMBDA c : c.id = categoryId)

\* data.categories.filter((c) => c.id !== categoryId)
Remaining(cats, categoryId) ==
    SelectSeq(cats, LAMBDA c : c.id # categoryId)

\* Mutant: the selection survives the deletion of its category
CursorAfterDelete_Kept(cur, categoryId) == cur

\* if (currentCategoryId === categoryId) currentCategoryId = null
CursorAfterDelete(cur, categoryId) ==
    IF cur = Val(categoryId) THEN null ELSE cur

deleteCategory(m, categoryId, confirmed) ==
    IF ~confirmed THEN m
    ELSE LET m1 == [m EXCEPT
                      !.data.categories = Remaining(@, categoryId),
                      !.cur = CursorAfterDelete(@, categoryId)]
         IN  AndThenProgress(AndThenTasks(renderCategories(saveData(m1))))

selectCategory(m, id) ==
    AndThenBadges(AndThenProgress(AndThenTasks(
        renderCategories([m EXCEPT !.cur = Val(id)]))))

addCategory(m, value, t, rnd) ==
    LET name == Trim(value)
        cat == [ id |-> generateId(t), name |-> name, tasks |-> <<>>,
                 xp |-> 0, level |-> 1,
                 colorOrder |-> shuffleArray(baseShades, rnd),
                 colorIndex |-> 0 ]
    IN  IF name = <<>> THEN m
        ELSE renderCategories(saveData(
                 [m EXCEPT !.data.categories = Append(@, cat)]))

\* Mutant: the index wraps one entry early
NextColorIndex_WrapsEarly(cat) ==
    (cat.colorIndex + 1) % (Len(cat.colorOrder) - 1)

\* (cat.colorIndex + 1) % cat.colorOrder.length
NextColorIndex(cat) == (cat.colorIndex + 1) % Len(cat.colorOrder)

\* Mutant: the task is put in front of the others (unshift)
Pushed_InFront(tasks, task) == <<task>> \o tasks

\* cat.tasks.push(task)
Pushed(tasks, task) == Append(tasks, task)

addTask(m, value, checked, t) ==
    LET text == Trim(value)
        c == Find(m.data.categories, m.cur)
    IN  IF text = <<>> \/ Falsy(m.cur) THEN m
        ELSE IF c = 0 THEN Throw(m, "TypeError")
        ELSE LET cat == m.data.categories[c]
                 color == cat.colorOrder[cat.colorIndex + 1]
                 task == [ id |-> generateId(t), text |-> text, done |-> FALSE,
                           daily |-> checked, lastCompleted |-> null,
                           color |-> color ]
                 m1 == [m EXCEPT
                          !.data.categories[c].colorIndex = NextColorIndex(cat),
                          !.data.categories[c].tasks = Pushed(@, task)]
             IN  renderTasks(saveData(m1))

\* Mutant: a level takes ten xp
xpForNext_Ten(level) == level * 10

\* const xpForNext = cat.level * 5
xpForNext(level) == level * 5

\* Mutant: the completion is worth as many xp as the category's level
Completed_XpByLevel(cat, k, today) ==
    [cat EXCEPT !.tasks[k].done = TRUE,
                !.tasks[k].lastCompleted = Val(today),
                !.xp = @ + cat.level]

\* task.done = true; task.lastCompleted = new Date().toDateString(); cat.xp++
Completed(cat, k, today) ==
    [cat EXCEPT !.tasks[k].done = TRUE,
                !.tasks[k].lastCompleted = Val(today),
                !.xp = @ + 1]

\* Mutant: the threshold has to be exceeded
ReachedNext_Strict(cat) == cat.xp > xpForNext(cat.level)

\* if (cat.xp >= xpForNext), read after cat.xp++
ReachedNext(cat) == cat.xp >= xpForNext(cat.level)

\* cat.level++
LeveledUp(cat) == [cat EXCEPT !.level = @ + 1]

\* Mutant: unchecking takes the level back
Unchecked_LevelDown(cat, k) ==
    [cat EXCEPT !.tasks[k].done = FALSE, !.level = @ - 1]

\* Mutant: unchecking refunds the xp
Unchecked_Refund(cat, k) ==
    [cat EXCEPT !.tasks[k].done = FALSE, !.xp = @ - 1]

\* Mutant: unchecking forgets the completion date
Unchecked_ClearsDate(cat, k) ==
    [cat EXCEPT !.tasks[k].done = FALSE, !.tasks[k].lastCompleted = null]

\* task.done = false: no XP deduction
Unchecked(cat, k) == [cat EXCEPT !.tasks[k].done = FALSE]

\* Mutant: the popup is raised with the level the category had
LevelUpCalls_OldLevel(cat) ==
    << showLevelUpPopup(cat.name, cat.level - 1), unlockSkins(cat.level) >>

\* showLevelUpPopup(cat.name, cat.level); unlockSkins(cat.level), read after
\* cat.level++
LevelUpCalls(cat) ==
    << showLevelUpPopup(cat.name, cat.level), unlockSkins(cat.level) >>

toggleTask(m, taskId, t) ==
    LET c == Find(m.data.categories, m.cur)
    IN  IF c = 0 THEN Throw(m, "TypeError")
        ELSE
        LET cat == m.data.categories[c]
            k == Find(cat.tasks, Val(taskId))
        IN  IF k = 0 THEN m
            ELSE
            LET done == Completed(cat, k, toDateString(t))
                up == LeveledUp(done)
                m1 == IF ~cat.tasks[k].done
                      THEN IF ReachedNext(done)
                           THEN [m EXCEPT
                                   !.data.categories[c] = up,
                                   !.calls = @ \o LevelUpCalls(up)]
                           ELSE [m EXCEPT !.data.categories[c] = done]
                      ELSE [m EXCEPT
                              !.data.categories[c] = Unchecked(cat, k)]
            IN  AndThenBadges(AndThenProgress(renderTasks(saveData(m1))))

\* The positions <<category, task>> the two nested forEach visit
Positions(cats) ==
    UNION {{<<c, k>> : k \in 1..Len(cats[c].tasks)} : c \in 1..Len(cats)}

\* The two nested forEach: task.done = false for the tasks at the positions
\* <<category, task>> in picked
ClearDone(cats, picked) ==
    [c \in 1..Len(cats) |->
        [cats[c] EXCEPT !.tasks =
            [k \in 1..Len(cats[c].tasks) |->
                IF <<c, k>> \in picked
                THEN [cats[c].tasks[k] EXCEPT !.done = FALSE]
                ELSE cats[c].tasks[k]]]]

\* Mutant: the test forgets task.daily
StaleToday_AnyTask(task, today) ==
    task.done /\ task.lastCompleted # Val(today)

\* if (task.daily && task.done && task.lastCompleted !== today)
StaleToday(task, today) ==
    task.daily /\ task.done /\ task.lastCompleted # Val(today)

\* The positions of the tasks that pass the test of dailyResetCheck
StaleTasks(cats, today) ==
    {p \in Positions(cats) : StaleToday(cats[p[1]].tasks[p[2]], today)}

\* The flag "changed" of dailyResetCheck
dailyResetCheckChanged(m, t) ==
    StaleTasks(m.data.categories, toDateString(t)) # {}

dailyResetCheck(m, t) ==
    LET m1 == [m EXCEPT !.data.categories =
                  ClearDone(@, StaleTasks(@, toDateString(t)))]
    IN  IF dailyResetCheckChanged(m, t) THEN renderTasks(saveData(m1)) ELSE m

\* Mutant: the test forgets task.done
DoneDaily_AnyDaily(task) == task.daily

\* if (task.daily && task.done)
DoneDaily(task) == task.daily /\ task.done

\* The positions of the tasks that pass the test of dailyResetNow
DoneDailyTasks(cats) ==
    {p \in Positions(cats) : DoneDaily(cats[p[1]].tasks[p[2]])}

\* The flag "changed" of dailyResetNow
dailyResetNowChanged(m) == DoneDailyTasks(m.data.categories) # {}

\* Mutant: the reset is not saved
dailyResetNow_NotSaved(m) ==
    LET m1 == [m EXCEPT !.data.categories = ClearDone(@, DoneDailyTasks(@))]
    IN  IF dailyResetNowChanged(m) THEN renderTasks(m1) ELSE m

dailyResetNow(m) ==
    LET m1 == [m EXCEPT !.data.categories = ClearDone(@, DoneDailyTasks(@))]
    IN  IF dailyResetNowChanged(m) THEN renderTasks(saveData(m1)) ELSE m

\* Mutant: the stale daily tasks are reset before the first render
init_ResetFirst(m, t) ==
    LET m1 == loadData(m)
        m2 == IF m1.thrown = "none"
              THEN dailyResetCheck(Call(m1, "dailyResetCheck"), t)
              ELSE m1
    IN  IF m2.thrown = "none"
        THEN AndThenProgress(AndThenTasks(renderBadges(renderCategories(m2))))
        ELSE m2

\* loadData(); bind the handlers; renderCategories(); renderBadges();
\* renderTasks(); renderProgress(); dailyResetCheck()
init(m, t) ==
    LET m1 == loadData(m)
        m2 == IF m1.thrown = "none"
              THEN AndThenProgress(AndThenTasks(
                       renderBadges(renderCategories(m1))))
              ELSE m1
    IN  IF m2.thrown = "none"
        THEN dailyResetCheck(Call(m2, "dailyResetCheck"), t)
        ELSE m2

-----------------------------------------------------------------------------
(* The state machine: one action per event the page reacts to *)

\* What the user can type into #newCategoryInput and #newTaskInput
NameInputs == { <<>>, <<" ">>, <<" ", "b", " ">> }
TextInputs == { <<>>, <<" ", " ">>, <<"t">> }

Range(seq) == {seq[i] : i \in 1..Len(seq)}

RECURSIVE CountTasks(_)
CountTasks(cats) ==
    IF cats = <<>> THEN 0 ELSE Len(Head(cats).tasks) + CountTasks(Tail(cats))

RECURSIVE SumXp(_)
SumXp(cats) ==
    IF cats = <<>> THEN 0 ELSE Head(cats).xp + SumXp(Tail(cats))

TotalTasks == CountTasks(data.categories)
TotalXp == SumXp(data.categories)

\* The script's top level: let data = { categories: [] };
\* let currentCategoryId = null; the page has no list items yet
Init ==
    /\ data = [categories |-> <<>>]
    /\ currentCategoryId = null
    /\ storage = null
    /\ now = 0
    /\ phase = "loaded"
    /\ domCategories = <<>>
    /\ domTasks = <<>>
    /\ calls = <<>>
    /\ thrown = "none"

\* The handler ended in machine m
Commit(m) ==
    /\ data' = m.data
    /\ currentCategoryId' = m.cur
    /\ storage' = m.storage
    /\ domCategories' = m.domCategories
    /\ domTasks' = m.domTasks
    /\ calls' = m.calls
    /\ thrown' = m.thrown

\* document.addEventListener("DOMContentLoaded", init)
DOMContentLoaded ==
    /\ phase = "loaded"
    /\ LET m == init(Machine, now)
       IN  /\ Commit(m)
           /\ phase' = IF m.thrown = "none" THEN "ready"
                       ELSE IF loadData(Machine).thrown = "none" THEN "bound"
                       ELSE "failed"
    /\ UNCHANGED now

\* click on #addCategoryBtn with value typed into #newCategoryInput
AddCategory(value, rnd) ==
    /\ phase = "ready"
    /\ Commit(addCategory(Machine, value, now, rnd))
    /\ UNCHANGED <<now, phase>>

\* click on #addTaskBtn with value typed into #newTaskInput
AddTask(value, checked) ==
    /\ phase = "ready"
    /\ Commit(addTask(Machine, value, checked, now))
    /\ UNCHANGED <<now, phase>>

\* click on the name of a rendered category
SelectCategory(id) ==
    /\ phase = "ready"
    /\ id \in Range(domCategories)
    /\ Commit(selectCategory(Machine, id))
    /\ UNCHANGED <<now, phase>>

\* click on the reload icon of a rendered category
ResetCategoryTasks(id) ==
    /\ phase = "ready"
    /\ id \in Range(domCategories)
    /\ Commit(resetCategoryTasks(Machine, id))
    /\ UNCHANGED <<now, phase>>

\* click on the trash icon of a rendered category, and the answer to confirm()
DeleteCategory(id, confirmed) ==
    /\ phase = "ready"
    /\ id \in Range(domCategories)
    /\ Commit(deleteCategory(Machine, id, confirmed))
    /\ UNCHANGED <<now, phase>>

\* click on a rendered task
ToggleTask(taskId) ==
    /\ phase = "ready"
    /\ taskId \in Range(domTasks)
    /\ Commit(toggleTask(Machine, taskId, now))
    /\ UNCHANGED <<now, phase>>

\* click on #dailyResetBtn
DailyResetNow ==
    /\ phase = "ready"
    /\ Commit(dailyResetNow(Machine))
    /\ UNCHANGED <<now, phase>>

\* location.reload(): the script is evaluated again on an empty page
Reload ==
    /\ phase # "loaded"
    /\ data' = [categories |-> <<>>]
    /\ currentCategoryId' = null
    /\ domCategories' = <<>>
    /\ domTasks' = <<>>
    /\ calls' = <<>>
    /\ thrown' = "none"
    /\ phase' = "loaded"
    /\ UNCHANGED <<storage, now>>

\* Mutant: the slot is not removed before the reload
ResetAll_KeepsSlot ==
    /\ phase \in {"ready", "bound"}
    /\ data' = [categories |-> <<>>]
    /\ currentCategoryId' = null
    /\ domCategories' = <<>>
    /\ domTasks' = <<>>
    /\ calls' = <<>>
    /\ thrown' = "none"
    /\ phase' = "loaded"
    /\ UNCHANGED <<storage, now>>

\* click on #resetBtn: localStorage.removeItem("taskrpg"); location.reload().
\* In phase "bound" the document has no categories property: the other bound
\* handlers only throw or return on it and are left out.
ResetAll ==
    /\ phase \in {"ready", "bound"}
    /\ data' = [categories |-> <<>>]
    /\ currentCategoryId' = null
    /\ domCategories' = <<>>
    /\ domTasks' = <<>>
    /\ calls' = <<>>
    /\ thrown' = "none"
    /\ phase' = "loaded"
    /\ storage' = null
    /\ UNCHANGED now

\* The clock advances by a millisecond
Tick ==
    /\ now' = now + 1
    /\ UNCHANGED <<data, currentCategoryId, storage, phase, domCategories,
                   domTasks, calls, thrown>>

\* Midnight passes
NextDay ==
    /\ now' = ((now \div MsPerDay) + 1) * MsPerDay
    /\ UNCHANGED <<data, currentCategoryId, storage, phase, domCategories,
                   domTasks, calls, thrown>>

\* The guards that keep the reachable states finite
RoomForCategory(value) ==
    Trim(value) # <<>> => Len(data.categories) < MaxCategories
RoomForTask == TotalTasks < MaxTasks
RoomForMs == now % MsPerDay < MaxMs
RoomForDay == now \div MsPerDay < MaxDay

Next ==
    \/ DOMContentLoaded
    \/ \E value \in NameInputs, rnd \in RandomDraws :
           RoomForCategory(value) /\ AddCategory(value, rnd)
    \/ \E value \in TextInputs, checked \in BOOLEAN :
           RoomForTask /\ AddTask(value, checked)
    \/ \E id \in Range(domCategories) : SelectCategory(id)
    \/ \E id \in Range(domCategories) : ResetCategoryTasks(id)
    \/ \E id \in Range(domCategories), confirmed \in BOOLEAN :
           DeleteCategory(id, confirmed)
    \/ \E taskId \in Range(domTasks) : TotalXp < MaxXp /\ ToggleTask(taskId)
    \/ DailyResetNow
    \/ Reload
    \/ ResetAll
    \/ RoomForMs /\ Tick
    \/ RoomForDay /\ NextDay

Spec == Init /\ [][Next]_vars

\* The same page within one calendar day, with two category names and one
\* outcome of the shuffle, followed through more completions
LevelNameInputs == { <<>>, <<"a">>, <<" ", "b", " ">> }
LevelDraws == { <<1, 1, 2, 2, 4, 1, 3>> }

NextLevels ==
    \/ DOMContentLoaded
    \/ \E value \in LevelNameInputs, rnd \in LevelDraws :
           RoomForCategory(value) /\ AddCategory(value, rnd)
    \/ \E value \in TextInputs, checked \in BOOLEAN :
           RoomForTask /\ AddTask(value, checked)
    \/ \E id \in Range(domCategories) : SelectCategory(id)
    \/ \E id \in Range(domCategories) : ResetCategoryTasks(id)
    \/ \E id \in Range(domCategories), confirmed \in BOOLEAN :
           DeleteCategory(id, confirmed)
    \/ \E taskId \in Range(domTasks) :
           TotalXp < MaxLevelXp /\ ToggleTask(taskId)
    \/ DailyResetNow
    \/ Reload
    \/ ResetAll
    \/ RoomForMs /\ Tick

SpecLevels == Init /\ [][NextLevels]_vars

\* The same page within one calendar day, with tasks that are never clicked,
\* followed until a palette has been used up and started again
PaletteTextInputs == { <<>>, <<"t">> }

NextPalette ==
    \/ DOMContentLoaded
    \/ \E value \in NameInputs, rnd \in RandomDraws :
           RoomForCategory(value) /\ AddCategory(value, rnd)
    \/ \E value \in PaletteTextInputs :
           TotalTasks < MaxPaletteTasks /\ AddTask(value, FALSE)
    \/ \E id \in Range(domCategories) : SelectCategory(id)
    \/ Reload
    \/ RoomForMs /\ Tick

SpecPalette == Init /\ [][NextPalette]_vars

\* Every outcome of the six Math.random() draws of one shuffle
AllDraws ==
    { <<1, r2, r3, r4, r5, r6, r7>> :
          r2 \in 1..2, r3 \in 1..3, r4 \in 1..4, r5 \in 1..5, r6 \in 1..6,
          r7 \in 1..7 }

\* The same page creating and selecting categories, where the shuffle of the
\* first category of a document can end in each of its outcomes and the
\* shuffle of a category added next to it in one
ShuffleDraws == IF data.categories = <<>> THEN AllDraws ELSE RandomDraws

NextShuffle ==
    \/ DOMContentLoaded
    \/ \E value \in NameInputs, rnd \in ShuffleDraws :
           RoomForCategory(value) /\ AddCategory(value, rnd)
    \/ \E id \in Range(domCategories) : SelectCategory(id)
    \/ RoomForMs /\ Tick

SpecShuffle == Init /\ [][NextShuffle]_vars

\* The ids a caller can pass: the ids the clock of the model can give, and one
\* it cannot
CallIds == { generateId(0), generateId(1), <<"x">> }

\* toggleTask, resetCategoryTasks and deleteCategory are functions of the
\* page's global scope: called by name with any id, not only by the click
\* handlers with a rendered one
InvokeToggleTask(taskId) ==
    /\ phase = "ready"
    /\ Commit(toggleTask(Machine, taskId, now))
    /\ UNCHANGED <<now, phase>>

InvokeResetCategoryTasks(id) ==
    /\ phase = "ready"
    /\ Commit(resetCategoryTasks(Machine, id))
    /\ UNCHANGED <<now, phase>>

InvokeDeleteCategory(id, confirmed) ==
    /\ phase = "ready"
    /\ Commit(deleteCategory(Machine, id, confirmed))
    /\ UNCHANGED <<now, phase>>

\* The same page within one calendar day, with the three functions also
\* called by name
NextCalls ==
    \/ DOMContentLoaded
    \/ \E value \in NameInputs, rnd \in RandomDraws :
           RoomForCategory(value) /\ AddCategory(value, rnd)
    \/ \E value \in TextInputs, checked \in BOOLEAN :
           RoomForTask /\ AddTask(value, checked)
    \/ \E id \in Range(domCategories) : SelectCategory(id)
    \/ \E id \in Range(domCategories) : ResetCategoryTasks(id)
    \/ \E id \in Range(domCategories), confirmed \in BOOLEAN :
           DeleteCategory(id, confirmed)
    \/ \E taskId \in Range(domTasks) : TotalXp < MaxXp /\ ToggleTask(taskId)
    \/ \E taskId \in CallIds : TotalXp < MaxXp /\ InvokeToggleTask(taskId)
    \/ \E id \in CallIds : InvokeResetCategoryTasks(id)
    \/ \E id \in CallIds, confirmed \in BOOLEAN :
           InvokeDeleteCategory(id, confirmed)
    \/ DailyResetNow
    \/ Reload
    \/ ResetAll
    \/ RoomForMs /\ Tick

SpecCalls == Init /\ [][NextCalls]_vars

\* The page started on a slot it did not write itself: a text that is no
\* JSON, or the JSON text {} (getItem's "saved" is a non-empty string in both)
ForeignBlobs == { Malformed, JObject(<<>>) }

\* Something else than this run of the page leaves blob in the slot "taskrpg"
\* before init() reads it
ForeignWrite(blob) ==
    /\ phase = "loaded"
    /\ storage' = Val(blob)
    /\ UNCHANGED <<data, currentCategoryId, now, phase, domCategories,
                   domTasks, calls, thrown>>

NextStorage ==
    \/ DOMContentLoaded
    \/ \E blob \in ForeignBlobs : ForeignWrite(blob)
    \/ \E value \in NameInputs, rnd \in RandomDraws :
           AddCategory(value, rnd) /\ RoomForCategory(value)
    \/ \E value \in TextInputs, checked \in BOOLEAN :
           AddTask(value, checked) /\ RoomForTask
    \/ \E id \in Range(domCategories) : SelectCategory(id)
    \/ \E id \in Range(domCategories) : ResetCategoryTasks(id)
    \/ \E id \in Range(domCategories), confirmed \in BOOLEAN :
           DeleteCategory(id, confirmed)
    \/ \E taskId \in Range(domTasks) : ToggleTask(taskId) /\ TotalXp < MaxXp
    \/ DailyResetNow
    \/ Reload
    \/ ResetAll
    \/ RoomForMs /\ Tick
    \/ RoomForDay /\ NextDay

SpecStorage == Init /\ [][NextStorage]_vars

-----------------------------------------------------------------------------
(* Properties *)

Categories == data.categories

\* The category toggleTask works on, 0 when the cursor names none
Selected == Find(Categories, currentCategoryId)

\* The step is a click on rendered task taskId that finds it not done
Completes(taskId) ==
    /\ Selected # 0
    /\ LET k == Find(Categories[Selected].tasks, Val(taskId))
       IN  k # 0 /\ ~Categories[Selected].tasks[k].done
    /\ ToggleTask(taskId)

\* The step is a click on rendered task taskId that finds it done
Unchecks(taskId) ==
    /\ Selected # 0
    /\ LET k == Find(Categories[Selected].tasks, Val(taskId))
       IN  k # 0 /\ Categories[Selected].tasks[k].done
    /\ ToggleTask(taskId)

XpLevels(doc) ==
    [c \in 1..Len(doc.categories) |->
        <<doc.categories[c].xp, doc.categories[c].level>>]

\* C1: in every reachable state every category has level >= 1 and xp >= 0.
C1_Floors ==
    \A c \in 1..Len(Categories) :
        Categories[c].level >= 1 /\ Categories[c].xp >= 0

\* A category that levelled up and whose tasks were all unchecked again
C1_Witness ==
    /\ phase = "ready"
    /\ \E c \in 1..Len(Categories) :
           /\ Categories[c].level = 2
           /\ Categories[c].tasks # <<>>
           /\ \A k \in 1..Len(Categories[c].tasks) : ~Categories[c].tasks[k].done

\* C2: a toggleTask step that completes a task adds exactly 1 to the xp of the
\* category holding the task and leaves xp and level of every other category
\* as they were.
C2_CompletionAddsOneXp ==
    [][\A taskId \in Range(domTasks) :
          Completes(taskId) =>
              /\ Len(data'.categories) = Len(Categories)
              /\ data'.categories[Selected].xp = Categories[Selected].xp + 1
              /\ \A o \in 1..Len(Categories) :
                     o # Selected =>
                         /\ data'.categories[o].xp = Categories[o].xp
                         /\ data'.categories[o].level = Categories[o].level
      ]_vars

\* Two categories, the second one completed past the first threshold while the
\* first one has gained xp of its own
C2_Witness ==
    /\ Len(Categories) = 2
    /\ Categories[1].xp = 2 /\ Categories[1].level = 1
    /\ Categories[2].xp = 6 /\ Categories[2].level = 2

\* C3: on a completion the level goes up by exactly 1 if and only if the xp
\* after the increment is >= 5 * (the level before the step), and is unchanged
\* otherwise.
C3_LevelRule ==
    [][\A taskId \in Range(domTasks) :
          Completes(taskId) =>
              data'.categories[Selected].level =
                  IF Categories[Selected].xp + 1 >= 5 * Categories[Selected].level
                  THEN Categories[Selected].level + 1
                  ELSE Categories[Selected].level
      ]_vars

\* A category taken over the thresholds of level 1 and of level 2
C3_Witness ==
    \E c \in 1..Len(Categories) :
        Categories[c].xp = 10 /\ Categories[c].level = 3

\* C4: unchecking a task, resetCategoryTasks, dailyResetNow and the
\* dailyResetCheck of init leave xp and level of every category as they were;
\* while the categories stay the same, xp and level change only in a step
\* that completes a task.
C4_OnlyCompletionChangesXp ==
    [][/\ \A taskId \in Range(domTasks) :
              Unchecks(taskId) => XpLevels(data') = XpLevels(data)
       /\ \A id \in Range(domCategories) :
              ResetCategoryTasks(id) => XpLevels(data') = XpLevels(data)
       /\ DailyResetNow => XpLevels(data') = XpLevels(data)
       /\ DOMContentLoaded =>
              XpLevels(data') = XpLevels(loadData(Machine).data)
       /\ (/\ Ids(data'.categories) = Ids(Categories)
           /\ XpLevels(data') # XpLevels(data)) =>
              \E taskId \in Range(domTasks) : Completes(taskId)
      ]_vars

\* A task with a completion date and xp earned is not done any more
C4_Witness ==
    /\ phase = "ready"
    /\ \E c \in 1..Len(Categories) :
           /\ Categories[c].xp = 2
           /\ \E k \in 1..Len(Categories[c].tasks) :
                  /\ ~Categories[c].tasks[k].done
                  /\ Categories[c].tasks[k].lastCompleted # null

\* The categories whose level the step changes
LevelChanged ==
    {c \in 1..Len(Categories) :
        data'.categories[c].level # Categories[c].level}

\* C5: a handler calls showLevelUpPopup and unlockSkins once each, with the
\* category's name and its new level, when it raises the level of a
\* category, by one, and calls neither otherwise.
C5_NotifiedOncePerLevel ==
    [][now' = now =>
          IF Ids(data'.categories) = Ids(Categories) /\ LevelChanged # {}
          THEN \E c \in LevelChanged :
                   /\ LevelChanged = {c}
                   /\ data'.categories[c].level = Categories[c].level + 1
                   /\ calls' =
                        << [fn |-> "showLevelUpPopup",
                            name |-> data'.categories[c].name,
                            level |-> data'.categories[c].level],
                           [fn |-> "unlockSkins", name |-> <<>>,
                            level |-> data'.categories[c].level] >>
          ELSE calls' = <<>>
      ]_vars

\* The handler that just ran took category "b" to level 3
C5_Witness ==
    /\ calls # <<>>
    /\ calls[1].name = <<"b">>
    /\ calls[1].level = 3

\* The positions of the categories whose id is not id
OtherIds(id) == {c \in 1..Len(Categories) : Categories[c].id # id}

\* C6: after a confirmed deleteCategory(id) no category of that id is left,
\* the cursor is null if it named id and is as it was otherwise, and the
\* categories of every other id are left whole and in their order.
C6_DeleteFrame ==
    [][\A id \in Range(domCategories) :
          DeleteCategory(id, TRUE) =>
              /\ \A c \in 1..Len(data'.categories) :
                     data'.categories[c].id # id
              /\ currentCategoryId' =
                     IF currentCategoryId = Val(id) THEN null
                     ELSE currentCategoryId
              /\ Len(data'.categories) = Cardinality(OtherIds(id))
              /\ \A c \in OtherIds(id) :
                     data'.categories[Cardinality({o \in OtherIds(id) : o <= c})]
                         = Categories[c]
      ]_vars

\* The last category was deleted: the slot holds a document without
\* categories, which only deleteCategory writes
C6_Witness ==
    /\ phase = "ready"
    /\ storage = Val(JObject(<< <<"categories", JArray(<<>>)>> >>))
    /\ currentCategoryId = null

\* C7: once init has returned, after every handler the slot holds a blob that
\* loadData turns into the in-memory document, or there is no slot and the
\* document is the empty one.
C7_SlotMatchesMemory ==
    phase = "ready" =>
        \/ /\ storage # null
           /\ Unwrap(storage) # Malformed
           /\ loadData([Machine EXCEPT !.data = [categories |-> <<>>]]).data
                  = data
        \/ /\ storage = null
           /\ data = [categories |-> <<>>]

\* A daily task that earned xp is saved as not done
C7_Witness ==
    /\ phase = "ready"
    /\ storage # null
    /\ \E c \in 1..Len(Categories) :
           /\ Categories[c].xp = 1
           /\ \E k \in 1..Len(Categories[c].tasks) :
                  /\ Categories[c].tasks[k].daily
                  /\ ~Categories[c].tasks[k].done
                  /\ Categories[c].tasks[k].lastCompleted # null

\* C8: saveData followed by loadData gives back the document: the same
\* categories and tasks in the same order with the same field values.
C8_RoundTrip ==
    loadData(saveData(Machine)).data = data

\* A document with two categories, a task completed and a task never completed
C8_Witness ==
    /\ Len(Categories) = 2
    /\ \E c \in 1..2 : \E k \in 1..Len(Categories[c].tasks) :
           Categories[c].tasks[k].lastCompleted # null
    /\ \E c \in 1..2 : \E k \in 1..Len(Categories[c].tasks) :
           Categories[c].tasks[k].lastCompleted = null

\* C9: a second dailyResetNow, and a second dailyResetCheck on the same day,
\* run right after the first, finds nothing to change (changed = false) and
\* leaves every variable as the first run left it.
C9_ResetIdempotent ==
    LET n1 == dailyResetNow(Machine)
        c1 == dailyResetCheck(Machine, now)
    IN  /\ ~dailyResetNowChanged(n1)
        /\ dailyResetNow(n1) = n1
        /\ \A t \in {now, now + 1} :
               /\ ~dailyResetCheckChanged(c1, t)
               /\ dailyResetCheck(c1, t) = c1

\* A daily task completed today and a daily task completed yesterday, both done
C9_Witness ==
    /\ phase = "ready"
    /\ \E c \in 1..Len(Categories) : \E k \in 1..Len(Categories[c].tasks) :
           /\ Categories[c].tasks[k].daily /\ Categories[c].tasks[k].done
           /\ Categories[c].tasks[k].lastCompleted = Val(toDateString(now))
    /\ \E c \in 1..Len(Categories) : \E k \in 1..Len(Categories[c].tasks) :
           /\ Categories[c].tasks[k].daily /\ Categories[c].tasks[k].done
           /\ Categories[c].tasks[k].lastCompleted # Val(toDateString(now))

\* What C10 expects of dailyResetCheck run at time t on the current state
C10_At(t) ==
    LET after == dailyResetCheck(Machine, t)
        today == toDateString(t)
        Due(task) ==
            task.daily = TRUE /\ task.done = TRUE
                /\ task.lastCompleted # Val(today)
    IN  /\ after.cur = currentCategoryId
        /\ Len(after.data.categories) = Len(Categories)
        /\ \A c \in 1..Len(Categories) :
               /\ [after.data.categories[c] EXCEPT !.tasks = <<>>]
                      = [Categories[c] EXCEPT !.tasks = <<>>]
               /\ Len(after.data.categories[c].tasks) = Len(Categories[c].tasks)
               /\ \A k \in 1..Len(Categories[c].tasks) :
                      after.data.categories[c].tasks[k] =
                          IF Due(Categories[c].tasks[k])
                          THEN [Categories[c].tasks[k] EXCEPT !.done = FALSE]
                          ELSE Categories[c].tasks[k]
        /\ dailyResetCheckChanged(Machine, t) <=>
               \E c \in 1..Len(Categories) :
                   \E k \in 1..Len(Categories[c].tasks) :
                       Due(Categories[c].tasks[k])

\* C10: dailyResetCheck clears done on exactly the tasks that are daily, done
\* and last completed on another day than today, in every category, and
\* changes nothing else; run today it leaves a daily task completed today
\* done, run on the next day it clears it and reports a change.
C10_ResetsExactlyStale ==
    /\ C10_At(now)
    /\ C10_At(now + MsPerDay)
    /\ \A c \in 1..Len(Categories) : \A k \in 1..Len(Categories[c].tasks) :
           LET task == Categories[c].tasks[k]
           IN  (task.daily /\ task.done
                    /\ task.lastCompleted = Val(toDateString(now))) =>
                   /\ dailyResetCheck(Machine, now).data.categories[c].tasks[k].done
                   /\ ~dailyResetCheck(Machine, now + MsPerDay)
                          .data.categories[c].tasks[k].done
                   /\ dailyResetCheckChanged(Machine, now + MsPerDay)

\* A daily task completed yesterday and still done, next to a task that is not
\* daily and done
C10_Witness ==
    /\ phase = "ready"
    /\ \E c \in 1..Len(Categories) : \E k \in 1..Len(Categories[c].tasks) :
           /\ Categories[c].tasks[k].daily /\ Categories[c].tasks[k].done
           /\ Categories[c].tasks[k].lastCompleted # Val(toDateString(now))
    /\ \E c \in 1..Len(Categories) : \E k \in 1..Len(Categories[c].tasks) :
           ~Categories[c].tasks[k].daily /\ Categories[c].tasks[k].done

\* The calls init makes in this state, in their order
InitLog == init(Machine, now).log

FirstRender == <<"renderCategories", "renderBadges", "renderTasks", "renderProgress">>

\* The positions of fn in log
CallsOf(log, fn) == {i \in 1..Len(log) : log[i] = fn}

\* C11 as claimed: at startup dailyResetCheck is called exactly once, and before
\* the first call of renderCategories, renderTasks, renderProgress and
\* renderBadges.
C11_ResetBeforeFirstRender ==
    [][DOMContentLoaded =>
          /\ Cardinality(CallsOf(InitLog, "dailyResetCheck")) = 1
          /\ \A i \in 1..Len(InitLog) :
                 InitLog[i] \in Range(FirstRender) =>
                     \A j \in CallsOf(InitLog, "dailyResetCheck") : j < i
      ]_vars

\* C11 amended: when init does not throw, it calls dailyResetCheck exactly
\* once, as its last statement, after the first render of categories, badges,
\* tasks and progress, and dailyResetCheck saves and renders the tasks again
\* exactly when it reset a task; when init throws, it threw before it reached
\* dailyResetCheck, which is then not called.
C11_ResetAfterFirstRender ==
    [][DOMContentLoaded =>
          IF thrown' = "none"
          THEN /\ SubSeq(InitLog, 1, 5) = FirstRender \o <<"dailyResetCheck">>
               /\ SubSeq(InitLog, 6, Len(InitLog)) =
                      IF \E c \in 1..Len(data'.categories) :
                             \E k \in 1..Len(data'.categories[c].tasks) :
                                 data'.categories[c].tasks[k] #
                                     loadData(Machine).data.categories[c].tasks[k]
                      THEN <<"saveData", "renderTasks">>
                      ELSE <<>>
          ELSE CallsOf(InitLog, "dailyResetCheck") = {}
      ]_vars

\* The page has just started on a later day than a daily task was completed:
\* the task is saved as not done, and nothing is selected
C11_Witness ==
    /\ phase = "ready"
    /\ currentCategoryId = null
    /\ domCategories # <<>>
    /\ storage = Val(Stringify(data))
    /\ \E c \in 1..Len(Categories) : \E k \in 1..Len(Categories[c].tasks) :
           /\ Categories[c].tasks[k].daily
           /\ ~Categories[c].tasks[k].done
           /\ Categories[c].tasks[k].lastCompleted # null
           /\ Categories[c].tasks[k].lastCompleted # Val(toDateString(now))

\* The slot holds a blob that is no JSON or no document
ForeignSlot == storage # null /\ Unwrap(storage) \in ForeignBlobs

\* C16 as claimed: on a slot that holds a malformed blob loadData does not
\* throw and keeps the document, and init completes: it does not throw, the
\* handlers are bound and the first render is made.
C16_MalformedSlotIgnored ==
    [][(DOMContentLoaded /\ ForeignSlot) =>
          /\ loadData(Machine).thrown = "none"
          /\ loadData(Machine).data = data
          /\ thrown' = "none"
          /\ phase' = "ready"
          /\ SubSeq(InitLog, 1, 4) = FirstRender
      ]_vars

\* colorIndex and the colours of the tasks of every category of doc follow
\* the category's colorOrder round-robin (positions counted from 1)
PaletteCycles(doc) ==
    \A c \in 1..Len(doc.categories) :
        LET cat == doc.categories[c]
        IN  /\ cat.colorIndex = Len(cat.tasks) % 7
            /\ cat.colorIndex >= 0 /\ cat.colorIndex < 7
            /\ \A n \in 1..Len(cat.tasks) :
                   cat.tasks[n].color = cat.colorOrder[((n - 1) % 7) + 1]

\* C12: the n-th task of a category has colour colorOrder[(n-1) mod 7] of the
\* category, so the 8th has the colour of the 1st; colorIndex is the number
\* of tasks of the category mod 7 and lies in [0, 7); a step that adds a task
\* to a category changes neither colorIndex nor colorOrder of another one.
C12_PaletteCycling ==
    [][/\ PaletteCycles(data')
       /\ \A n \in 8..MaxPaletteTasks : \A c \in 1..Len(data'.categories) :
              Len(data'.categories[c].tasks) >= n =>
                  data'.categories[c].tasks[n].color =
                      data'.categories[c].tasks[n - 7].color
       /\ \A value \in PaletteTextInputs :
              (AddTask(value, FALSE) /\ data' # data) =>
                  /\ Len(data'.categories[Selected].tasks) =
                         Len(Categories[Selected].tasks) + 1
                  /\ \A o \in 1..Len(Categories) :
                         o # Selected =>
                             /\ data'.categories[o].colorIndex =
                                    Categories[o].colorIndex
                             /\ data'.categories[o].colorOrder =
                                    Categories[o].colorOrder
      ]_vars

\* A category with eight tasks, the palette started again, next to a category
\* with a task of its own
C12_Witness ==
    /\ Len(Categories) = 2
    /\ \E c \in 1..2 :
           /\ Len(Categories[c].tasks) = 8
           /\ Categories[c].colorIndex = 1
           /\ Categories[c].tasks[8].color = Categories[c].tasks[1].color
           /\ Len(Categories[3 - c].tasks) = 1

\* order holds each colour of the palette exactly once
IsPaletteOrder(order) ==
    /\ Len(order) = 7
    /\ \A i \in 1..Len(baseShades) :
           Cardinality({j \in 1..Len(order) : order[j] = baseShades[i]}) = 1

\* The step is a click on #addCategoryBtn that is not rejected: of the
\* handlers of SpecShuffle only addCategory, past its validation, writes data
\* (init, in phase "loaded", can too)
AddsCategory == phase = "ready" /\ data' # data

\* C13: addCategory with a name that is not empty after trimming appends
\* exactly one category, with xp 0, level 1, no tasks, colorIndex 0 and a
\* colorOrder that holds each of the 7 palette colours exactly once, and leaves
\* the categories there were and the selection cursor as they were.
C13_AddCategoryFrame ==
    [][/\ \A value \in NameInputs, rnd \in RandomDraws :
              Trim(value) # <<>> =>
                  addCategory(Machine, value, now, rnd).data # data
       /\ AddsCategory =>
              LET new == data'.categories[Len(data'.categories)]
              IN  /\ Len(data'.categories) = Len(Categories) + 1
                  /\ SubSeq(data'.categories, 1, Len(Categories)) = Categories
                  /\ currentCategoryId' = currentCategoryId
                  /\ new.xp = 0 /\ new.level = 1 /\ new.tasks = <<>>
                  /\ new.colorIndex = 0
                  /\ IsPaletteOrder(new.colorOrder)
      ]_vars

\* A category is selected and a second one, shuffled another way, stands
\* behind it
C13_Witness ==
    /\ Len(Categories) = 2
    /\ currentCategoryId = Val(Categories[1].id)
    /\ Categories[1].colorOrder # Categories[2].colorOrder
    /\ Categories[1].colorOrder[1] = "#90a4ae"
    /\ Categories[2].id # Categories[1].id

\* Handler result m leaves the document, the cursor and the slot as they are,
\* throws nothing and has neither saved nor rendered
LeftAlone(m) ==
    /\ m.data = data
    /\ m.cur = currentCategoryId
    /\ m.storage = storage
    /\ m.thrown = "none"
    /\ m.log = <<>>

\* C14: addCategory on an empty or whitespace-only name, addTask on an empty
\* or whitespace-only text, addTask while no category is selected, and
\* deleteCategory when the confirmation is declined leave the document, the
\* cursor and the slot unchanged and throw nothing.
C14_RejectedIsNoOp ==
    phase = "ready" =>
        /\ \A value \in NameInputs, rnd \in RandomDraws :
               value \in {<<>>, <<" ">>} =>
                   LeftAlone(addCategory(Machine, value, now, rnd))
        /\ \A value \in TextInputs, checked \in BOOLEAN :
               (value \in {<<>>, <<" ", " ">>} \/ currentCategoryId = null) =>
                   LeftAlone(addTask(Machine, value, checked, now))
        /\ \A id \in Range(domCategories) :
               LeftAlone(deleteCategory(Machine, id, FALSE))

\* Nothing is selected while the document, saved in the slot, has a category
\* with a task: each of the four rejections has something to leave alone
C14_Witness ==
    /\ phase = "ready"
    /\ currentCategoryId = null
    /\ domCategories # <<>>
    /\ storage = Val(Stringify(data))
    /\ \E c \in 1..Len(Categories) : Categories[c].tasks # <<>>

\* C15 as claimed: toggleTask called for a task id that the selected category
\* does not hold, or while the cursor is null or names no category, and
\* resetCategoryTasks and deleteCategory called for a category id that is not
\* in the document, leave the document unchanged and throw nothing.
C15_LookupMissIsNoOp ==
    [][/\ \A taskId \in CallIds :
              (/\ InvokeToggleTask(taskId)
               /\ \/ Selected = 0
                  \/ Find(Categories[Selected].tasks, Val(taskId)) = 0) =>
                  data' = data /\ thrown' = "none"
       /\ \A id \in CallIds :
              (InvokeResetCategoryTasks(id) /\ Find(Categories, Val(id)) = 0) =>
                  data' = data /\ thrown' = "none"
       /\ \A id \in CallIds :
              (InvokeDeleteCategory(id, TRUE) /\ Find(Categories, Val(id)) = 0) =>
                  data' = data /\ thrown' = "none"
      ]_vars

\* The ids of the tasks of category cat, and of the categories of doc
TaskIds(cat) == {cat.tasks[k].id : k \in 1..Len(cat.tasks)}
CategoryIds(doc) == {doc.categories[c].id : c \in 1..Len(doc.categories)}

\* C17 as claimed: in every reachable state the categories have pairwise
\* distinct ids and the tasks of a category have pairwise distinct ids, also
\* when two of them were created within the same clock tick.
C17_IdsDistinct ==
    /\ Cardinality(CategoryIds(data)) = Len(Categories)
    /\ \A c \in 1..Len(Categories) :
           Cardinality(TaskIds(Categories[c])) = Len(Categories[c].tasks)

\* The values the clock of the model takes up to now
ClockValues ==
    {t \in {d * MsPerDay + ms : d \in 0..MaxDay, ms \in 0..MaxMs} :
        t <= now}

\* C17 amended: the id of a category or task is the decimal string of the
\* clock's milliseconds at its creation, and different clock values have
\* different strings: entities created at different milliseconds have
\* different ids, and a category or task created within the millisecond of
\* another one gets the id of that one.
C17_IdsAreCreationTimes ==
    [][/\ \A t1 \in ClockValues, t2 \in ClockValues :
              generateId(t1) = generateId(t2) <=> t1 = t2
       /\ \A c \in 1..Len(data'.categories) :
              \E t \in ClockValues :
                  /\ data'.categories[c].id = NumberToString(t)
                  /\ \A k \in 1..Len(data'.categories[c].tasks) :
                         \E u \in ClockValues :
                             /\ u >= t
                             /\ data'.categories[c].tasks[k].id = NumberToString(u)
       /\ (phase = "ready" /\ Len(data'.categories) > Len(Categories)) =>
              data'.categories[Len(data'.categories)].id = NumberToString(now)
       /\ (/\ phase = "ready" /\ Selected # 0
           /\ Len(data'.categories) = Len(Categories)
           /\ Len(data'.categories[Selected].tasks) >
                  Len(Categories[Selected].tasks)) =>
              LET tasks == data'.categories[Selected].tasks
              IN  tasks[Len(tasks)].id = NumberToString(now)
      ]_vars

\* Two categories created a millisecond apart, the first one holding two tasks
\* created within one millisecond
C17_Witness ==
    /\ Len(Categories) = 2
    /\ Categories[1].id # Categories[2].id
    /\ Len(Categories[1].tasks) = 2
    /\ Categories[1].tasks[1].id = Categories[1].tasks[2].id

\* The machine init() starts on in the state the step leads to
MachineAfter ==
    [ data |-> data', cur |-> currentCategoryId', storage |-> storage',
      domCategories |-> domCategories', domTasks |-> domTasks',
      calls |-> <<>>, thrown |-> "none", log |-> <<>> ]

\* C18: after resetAll the slot is absent, the document has no categories and
\* the cursor is null, and the init() of the reloaded page leaves them so;
\* after every reload the cursor is null, and the init() of the reloaded page
\* leaves it null, whatever was selected before.
C18_ResetAllClears ==
    [][/\ ResetAll =>
              /\ storage' = null
              /\ data' = [categories |-> <<>>]
              /\ currentCategoryId' = null
              /\ init(MachineAfter, now').storage = null
              /\ init(MachineAfter, now').data = [categories |-> <<>>]
              /\ init(MachineAfter, now').cur = null
       /\ Reload =>
              /\ currentCategoryId' = null
              /\ storage' = storage
              /\ init(MachineAfter, now').cur = null
       /\ DOMContentLoaded => currentCategoryId' = null
      ]_vars

\* The page was reloaded on a slot that holds a category with a task: only a
\* reload leaves a saved document behind a page whose init() has not run
C18_Witness ==
    /\ phase = "loaded"
    /\ currentCategoryId = null
    /\ storage # null
    /\ loadData(Machine).data.categories # <<>>
    /\ loadData(Machine).data.categories[1].tasks # <<>>

\* The tasks of doc, category by category
TasksOf(doc) == [c \in 1..Len(doc.categories) |-> doc.categories[c].tasks]

\* C19: toggleTask flips done of the first task of the selected category that
\* has the given id and leaves every other task as it was; when it flips
\* false to true it sets the task's lastCompleted to today's date string,
\* when it flips true to false it leaves lastCompleted as it was.
C19_ToggleFrame ==
    [][\A taskId \in Range(domTasks) :
          (ToggleTask(taskId) /\ Selected # 0) =>
              LET k == Find(Categories[Selected].tasks, Val(taskId))
                  old == Categories[Selected].tasks[k]
              IN  /\ k # 0
                  /\ TasksOf(data') =
                         [TasksOf(data) EXCEPT ![Selected][k] =
                             [old EXCEPT
                                 !.done = ~old.done,
                                 !.lastCompleted =
                                     IF old.done THEN old.lastCompleted
                                     ELSE Val(toDateString(now))]]
      ]_vars

\* A task that is not daily was completed on an earlier day and is not done
\* now: the old completion date is still there
C19_Witness ==
    /\ phase = "ready"
    /\ \E c \in 1..Len(Categories) : \E k \in 1..Len(Categories[c].tasks) :
           /\ ~Categories[c].tasks[k].daily
           /\ ~Categories[c].tasks[k].done
           /\ Categories[c].tasks[k].lastCompleted # null
           /\ Categories[c].tasks[k].lastCompleted # Val(toDateString(now))
    /\ \E c \in 1..Len(Categories) : \E k \in 1..Len(Categories[c].tasks) :
           /\ Categories[c].tasks[k].done
           /\ Categories[c].tasks[k].lastCompleted = Val(toDateString(now))

\* What C20 expects of resetCategoryTasks(id) run on the current state
C20_At(id) ==
    LET m == resetCategoryTasks(Machine, id)
        c == Find(Categories, Val(id))
        flipped == \E k \in 1..Len(Categories[c].tasks) :
                       Categories[c].tasks[k].done
    IN  /\ c # 0
        /\ Len(m.data.categories) = Len(Categories)
        /\ \A o \in 1..Len(Categories) :
               /\ Categories[o].id = id =>
                      \A k \in 1..Len(m.data.categories[o].tasks) :
                          ~m.data.categories[o].tasks[k].done
               /\ o # c => m.data.categories[o] = Categories[o]
        /\ m.data.categories[c] =
               [Categories[c] EXCEPT !.tasks =
                   [k \in 1..Len(Categories[c].tasks) |->
                       [Categories[c].tasks[k] EXCEPT !.done = FALSE]]]
        /\ m.cur = currentCategoryId
        /\ m.thrown = "none"
        /\ IF flipped
           THEN /\ m.log = <<"saveData", "renderTasks">>
                /\ m.storage = Val(Stringify(m.data))
           ELSE /\ m.log = <<>>
                /\ m.storage = storage

\* C20: resetCategoryTasks(id) leaves every task of category id not done,
\* leaves lastCompleted of its tasks and xp, level, colorOrder and colorIndex
\* of the category as they were, leaves every other category as it was, and
\* saves and renders exactly when it flipped a task.
C20_ResetCategoryFrame ==
    phase = "ready" => \A id \in Range(domCategories) : C20_At(id)

\* Two tasks that are not daily were completed, for all the xp the document
\* holds under Spec, and are both not done: no click on a task is taken once
\* the xp is at its bound, so resetCategoryTasks unchecked the last one; a
\* second category stands beside
C20_Witness ==
    /\ phase = "ready"
    /\ Len(Categories) = 2
    /\ \E c \in 1..2 :
           /\ Categories[c].xp = MaxXp
           /\ Len(Categories[c].tasks) = 2
           /\ \A k \in 1..2 :
                  /\ ~Categories[c].tasks[k].daily
                  /\ ~Categories[c].tasks[k].done
                  /\ Categories[c].tasks[k].lastCompleted # null

\* Task new is task old but for done and lastCompleted
SameTask(old, new) ==
    /\ new.id = old.id
    /\ new.text = old.text
    /\ new.daily = old.daily
    /\ new.color = old.color

\* tasks new are tasks old, each in its place, with at most one more at the end
Appended(old, new) ==
    /\ Len(new) \in {Len(old), Len(old) + 1}
    /\ \A k \in 1..Len(old) : SameTask(old[k], new[k])

\* Categories new are categories old, each in its place with its tasks, with
\* perhaps more categories behind
KeepsTasks(old, new) ==
    /\ Len(new) >= Len(old)
    /\ \A c \in 1..Len(old) :
           /\ new[c].id = old[c].id
           /\ Appended(old[c].tasks, new[c].tasks)

\* C21: across every step but resetAll and the deleteCategory of the owning
\* category, every task stays in its category at its position with its id,
\* text, daily flag and colour, and a task sequence only grows at its end.
\* A confirmed deleteCategory(id) keeps the tasks of the categories of other
\* ids; the document of a reloaded page is the one its init() loads.
C21_TasksAppendOnly ==
    [][IF ResetAll THEN TRUE
       ELSE IF \E id \in Range(domCategories) : DeleteCategory(id, TRUE)
       THEN \A id \in Range(domCategories) :
                DeleteCategory(id, TRUE) =>
                    \A c \in OtherIds(id) :
                        LET to == Cardinality({o \in OtherIds(id) : o <= c})
                        IN  /\ to <= Len(data'.categories)
                            /\ data'.categories[to].id = Categories[c].id
                            /\ Appended(Categories[c].tasks,
                                        data'.categories[to].tasks)
       ELSE IF Reload
       THEN KeepsTasks(Categories, init(MachineAfter, now').data.categories)
       ELSE IF DOMContentLoaded
       THEN KeepsTasks(loadData(Machine).data.categories, data'.categories)
       ELSE KeepsTasks(Categories, data'.categories)
      ]_vars

\* A category holds a task that was completed and, behind it, a task of
\* another colour added after it; a second category stands beside
C21_Witness ==
    /\ phase = "ready"
    /\ Len(Categories) = 2
    /\ \E c \in 1..2 :
           /\ Len(Categories[c].tasks) = 2
           /\ Categories[c].tasks[1].done
           /\ Categories[c].tasks[1].color = Categories[c].colorOrder[1]
           /\ Categories[c].tasks[2].color = Categories[c].colorOrder[2]
           /\ Categories[c].tasks[2].id # Categories[c].tasks[1].id

\* C22: in every state reachable from the empty document every category has
\* 5 * (level - 1) <= xp < 5 * level, that is level = 1 + floor(xp / 5): once
\* a completion has finished, xp is below the threshold of the next level,
\* though xp is never reset.
C22_LevelFromXp ==
    \A c \in 1..Len(Categories) :
        /\ 5 * (Categories[c].level - 1) <= Categories[c].xp
        /\ Categories[c].xp < 5 * Categories[c].level
        /\ Categories[c].level = 1 + (Categories[c].xp \div 5)

\* A category that has just reached level 2 and kept its 5 xp, beside a
\* category one completion short of it
C22_Witness ==
    /\ phase = "ready"
    /\ Len(Categories) = 2
    /\ \E c \in 1..2 :
           /\ Categories[c].xp = 5 /\ Categories[c].level = 2
           /\ Categories[3 - c].xp = 4 /\ Categories[3 - c].level = 1

\* C23: in every state the click handlers, the add buttons, the daily reset
\* and reloads lead to, the cursor is null or the id of a category of the
\* document, no handler has thrown, and renderTasks, renderProgress, addTask
\* and toggleTask run from the state find the category they read.
C23_CursorValid ==
    /\ currentCategoryId = null \/ Selected # 0
    /\ thrown = "none"
    /\ renderTasks(Machine).thrown = "none"
    /\ renderProgress(Machine).thrown = "none"
    /\ \A value \in TextInputs, checked \in BOOLEAN :
           addTask(Machine, value, checked, now).thrown = "none"
    /\ \A taskId \in Range(domTasks) :
           toggleTask(Machine, taskId, now).thrown = "none"

\* The second of two categories of different ids is selected, and the
\* rendered tasks are its tasks
C23_Witness ==
    /\ phase = "ready"
    /\ Len(Categories) = 2
    /\ currentCategoryId = Val(Categories[2].id)
    /\ Categories[1].id # Categories[2].id
    /\ domTasks # <<>>
    /\ domTasks = Ids(Categories[2].tasks)

=============================================================================
